---- MODULE Spec2Model ----
(***************************************************************************)
(* The on-stage camera program as state machines: the RTSP handler         *)
(* (onstage_camera_system/rtsp.go) with its fields, one RTSP connection    *)
(* state per client and one streamFrames goroutine per PLAY request; the   *)
(* packetizing of a frame; and main with the camera's startup and shutdown *)
(* (unnamed/part_000, onstage_camera_system/config.go).                    *)
(***************************************************************************)
EXTENDS Integers, Sequences, FiniteSets, TLC

\* ---------------------------------------------------------------- bounds
NumConns == 2
MaxLoops == 2
MaxFrames == 2
MaxMisses == 1
MaxConsecutive == 3
MaxPayloadLen == 4
MaxTicks == 5

\* ------------------------------------------------------ program constants
FPS == 30
ClockRate == 90000
MTU == 1400
Word == 65536
Second == 1000000000

\* Go's uint32 as two 16-bit halves: the values of a 32-bit counter exceed
\* the integers the checker computes with.
U32(n) == [hi |-> n \div Word, lo |-> n % Word]
AddU32(a, n) ==
    [hi |-> (a.hi + (a.lo + n) \div Word) % Word, lo |-> (a.lo + n) % Word]
LtU32(a, b) == a.hi < b.hi \/ (a.hi = b.hi /\ a.lo < b.lo)
\* the conversion to the 16-bit SequenceNumber field of rtp.Header
U16(a) == a.lo
\* timestampInc := uint32(90000 / h.config.FPS)
timestampInc == ClockRate \div FPS

Conns == 1..NumConns
LoopIds == 1..MaxLoops
\* the connections that go on to stream in Spec; SpecReq serves all of Conns
Streamers == {1}

\* config.StreamPath and one path that is not the stream path
streamPath == "stream"
Paths == {"stream", "other"}

\* gortsplib.TransportProtocol values a SETUP can carry
Protocols == {"UDP", "TCP", "UDPMulticast"}

\* payload sizes of the frames the camera hands out
FrameSizes == {1, MTU + 1}

NoTransport == [protocol |-> "none", server |-> "none", client |-> "none"]
NoPkt == [seq |-> -1, ts |-> [hi |-> -1, lo |-> -1], marker |-> FALSE, frame |-> 0, st |-> "none", ok |-> FALSE]
\* the sequence number and timestamp of a packet (or of none)
NoStamp == [seq |-> -1, ts |-> [hi |-> -1, lo |-> -1]]
Stamp(pkt) == [seq |-> pkt.seq, ts |-> pkt.ts]
NoReq == [conn |-> 0, method |-> "none", path |-> "none", proto |-> "none",
          prior |-> "none", result |-> "none", changed |-> FALSE]

VARIABLES
    medias,      \* h.medias: <<>> is nil
    videoTrack,  \* h.videoTrack: "nil" or the H264 track
    streams,     \* h.streams: [isNil, elems]
    connState,   \* conn.State() of every connection
    writable,    \* whether the client end of the connection is still there
    transport,   \* the transport the SETUP response gave the connection
    loops,       \* the streamFrames goroutines
    nLoops,      \* goroutines started so far
    atPause,     \* per connection: the last packet emitted before the last PAUSE
    lastPkt,     \* per connection: the last packet emitted on it
    last,        \* the last request handled and what it returned
    refused,     \* per connection: a SETUP was refused for its transport
    framesRead,  \* frames the camera has handed out
    readErrors,  \* frame reads the camera has failed
    crashed,     \* a handler panicked: the process is gone
    describing,  \* per connection: where its OnDescribe call stands
    created,     \* MediaDescriptions the OnDescribe calls have made
    frameData,   \* frame.Data(): the payload handed to the packetizer
    maxPayload,  \* the maximum payload size handed to the packetizer
    packetized,  \* the packetizer has returned
    pkts,        \* the fragments it returned
    wire,        \* the fragments handed to WritePacketRTP, in the order of the calls
    config,      \* the Config main builds from the flags
    proc,        \* main: where it stands, its deferred calls, its exit status
    ctxDone,     \* the context of main is cancelled
    device,      \* the V4L2 device of the camera
    rtspServer,  \* the gortsplib server: "none", "running" or "closed"
    fps,         \* config.FPS as the -fps flag set it
    ticker       \* one streamFrames call with its time.Ticker and its timestamp

vars == <<medias, videoTrack, streams, connState, writable, transport,
          loops, nLoops, atPause, lastPkt, last, refused, framesRead, readErrors,
          crashed, describing, created, frameData, maxPayload, packetized,
          pkts, wire, config, proc, ctxDone, device, rtspServer, fps, ticker>>

\* the request log, and what lies outside the handler's atomic steps
logVars == <<last, refused>>
describeVars == <<describing, created>>
packetVars == <<frameData, maxPayload, packetized, pkts, wire>>
mainVars == <<config, proc, ctxDone, device, rtspServer>>
tickVars == <<fps, ticker>>
outside == <<describeVars, packetVars, mainVars, tickVars>>
\* the handler, the connections and the goroutines
rtspVars == <<medias, videoTrack, streams, connState, writable, transport,
              loops, nLoops, atPause, lastPkt, framesRead, readErrors, crashed>>

handlerState == <<medias, videoTrack, streams>>
sessionState == <<connState, transport>>

IdleLoop == [conn |-> 0, pc |-> "none", frameCounter |-> U32(0), timestamp |-> U32(0),
             frags |-> 0, i |-> 0, holding |-> FALSE,
             frames |-> 0, sent |-> 0, released |-> 0,
             lateTicks |-> 0, resumeFrom |-> NoStamp, last |-> NoPkt]

\* no OnDescribe call in progress, none has made a MediaDescription
NoDescribe ==
    /\ describing = [c \in Conns |-> "idle"]
    /\ created = 0

\* no frame at the packetizer
NoPayload ==
    /\ frameData = <<>>
    /\ maxPayload = MTU
    /\ packetized = FALSE
    /\ pkts = <<>>
    /\ wire = <<>>

\* no streamFrames call under the clock: the default FPS, no ticker yet
IdleTicker == [pc |-> "none", pending |-> 0, fired |-> 0, started |-> 0, overrun |-> 0,
               inc |-> 0, frames |-> 0, timestamp |-> U32(0), previous |-> U32(0)]

NoTicker ==
    /\ fps = FPS
    /\ ticker = IdleTicker

\* the handler NewRTSPServer builds, no connection yet
InitHandler ==
    /\ medias = <<>>
    /\ videoTrack = "nil"
    /\ streams = [isNil |-> TRUE, elems |-> <<>>]
    /\ connState = [c \in Conns |-> "INIT"]
    /\ writable = [c \in Conns |-> TRUE]
    /\ transport = [c \in Conns |-> NoTransport]
    /\ loops = [l \in LoopIds |-> IdleLoop]
    /\ nLoops = 0
    /\ atPause = [c \in Conns |-> NoStamp]
    /\ lastPkt = [c \in Conns |-> NoStamp]
    /\ last = NoReq
    /\ refused = [c \in Conns |-> FALSE]
    /\ framesRead = 0
    /\ readErrors = 0
    /\ crashed = FALSE

\* a conversion with no default branch
getPixelFormatNoDefault(format) ==
    CASE format = "H264" -> "PixelFmtH264"
      [] format = "MJPEG" -> "PixelFmtMJPEG"
      [] format = "YUYV" -> "PixelFmtYUYV"
      [] OTHER -> "none"

\* getPixelFormat: the V4L2 format of a format name
getPixelFormat(format) ==
    CASE format = "H264" -> "PixelFmtH264"
      [] format = "MJPEG" -> "PixelFmtMJPEG"
      [] format = "YUYV" -> "PixelFmtYUYV"
      [] OTHER -> "PixelFmtH264"

\* NewDefaultConfig, for the fields that decide a branch
DefaultConfig == [irMode |-> FALSE, pixelFormat |-> "H264"]

NoDevice == [state |-> "unopened", format |-> "none", closes |-> 0, controls |-> <<>>]

\* main with the camera started and the server listening, waiting for the
\* context to be cancelled: the process the handler runs in
MainWaiting ==
    /\ config = DefaultConfig
    /\ proc = [pc |-> "wait", status |-> "running",
               deferred |-> <<"cancel", "camera.Close", "server.Close">>]
    /\ ctxDone = FALSE
    /\ device = [NoDevice EXCEPT !.state = "streaming",
                                 !.format = getPixelFormat(DefaultConfig.pixelFormat)]
    /\ rtspServer = "running"

Init == InitHandler /\ NoDescribe /\ NoPayload /\ MainWaiting /\ NoTicker

\* A request can be handled for a connection whose client is there, while the
\* process is alive.
Serving(c) == ~crashed /\ writable[c] /\ connState[c] # "CLOSED"

\* what a request did, for the claims about responses
Outcome(c, method, path, proto, result) ==
    [conn |-> c, method |-> method, path |-> path, proto |-> proto,
     prior |-> connState[c], result |-> result,
     changed |-> (handlerState' # handlerState \/ sessionState' # sessionState
                  \/ crashed' # crashed)]

\* ------------------------------------------------------------ OnDescribe
DescribeResult(path) == IF path # streamPath THEN "NotFound" ELSE "OK"

\* a track initialised before the path is looked at
CreatesMediaAnyPath(path) == videoTrack = "nil"

\* the path check returns first; then "if h.videoTrack == nil"
CreatesMedia(path) == path = streamPath /\ videoTrack = "nil"

OnDescribe(c, path) ==
    /\ Serving(c)
    /\ IF CreatesMedia(path)
       THEN /\ videoTrack' = "H264"
            /\ medias' = <<"video">>
       ELSE UNCHANGED <<medias, videoTrack>>
    /\ UNCHANGED <<streams, connState, writable, transport, loops, nLoops,
                   atPause, lastPkt, framesRead, readErrors, crashed>>

\* -------------------------------------------------------------- OnSetup
\* the transports a client can ask for: a client port pair, or a channel pair
PortPairs == {<<5000, 5001>>}
ChannelPairs == {<<0, 1>>}
ClientParams(proto) == IF proto = "TCP" THEN ChannelPairs ELSE PortPairs

\* "Initialize streams on first setup": make([]*rtspStream, len(h.medias))
\* gives a non-nil slice also when h.medias is empty.
InitStreams ==
    IF streams.isNil
    THEN [isNil |-> FALSE,
          elems |-> [k \in 1..Len(medias) |->
                        [udpRTPListener |-> "nil", udpRTCPListener |-> "nil"]]]
    ELSE streams

\* h.streams[ctx.MediaIndex] of a Go slice: in range or a run-time panic
IndexInRange(strs, mediaIndex) == mediaIndex >= 0 /\ mediaIndex < Len(strs.elems)

SetupResponseFirstChannels(proto, params) ==
    CASE proto = "UDP" -> [protocol |-> "UDP", server |-> params, client |-> params]
      [] proto = "TCP" -> [protocol |-> "TCP", server |-> <<0, 1>>, client |-> params]
      [] OTHER -> NoTransport

\* the switch on ctx.Transport.Protocol: the response transport, or none
SetupResponse(proto, params) ==
    CASE proto = "UDP" -> [protocol |-> "UDP", server |-> params, client |-> params]
      [] proto = "TCP" -> [protocol |-> "TCP", server |-> params, client |-> params]
      [] OTHER -> NoTransport

SetupResult(strs, proto, params, mediaIndex) ==
    IF ~IndexInRange(strs, mediaIndex) THEN "panic"
    ELSE IF SetupResponse(proto, params) = NoTransport THEN "UnsupportedTransport"
    ELSE "OK"

OnSetup(c, path, proto, params, mediaIndex) ==
    /\ Serving(c)
    /\ connState[c] \in {"INIT", "READY"}
    /\ streams' = InitStreams
    /\ UNCHANGED <<medias, videoTrack>>
    /\ LET result == SetupResult(streams', proto, params, mediaIndex) IN
       /\ crashed' = (result = "panic")
       /\ IF result = "OK"
          THEN /\ connState' = [connState EXCEPT ![c] = "READY"]
               /\ transport' = [transport EXCEPT ![c] = SetupResponse(proto, params)]
          ELSE UNCHANGED <<connState, transport>>
       /\ UNCHANGED <<writable, loops, nLoops, atPause, lastPkt, framesRead, readErrors>>

\* --------------------------------------------------------------- OnPlay
\* "go h.streamFrames(ctx.Conn)": a new goroutine whose frameCounter and
\* timestamp are locals starting at 0; the server then enters the play state.
NewLoop(c) ==
    [IdleLoop EXCEPT !.conn = c, !.pc = "wait",
                     !.resumeFrom = IF connState[c] = "PAUSED" THEN atPause[c] ELSE NoStamp]

OnPlay(c, path) ==
    /\ Serving(c)
    /\ connState[c] \in {"READY", "PAUSED"}
    /\ nLoops < MaxLoops
    /\ nLoops' = nLoops + 1
    /\ loops' = [loops EXCEPT ![nLoops + 1] = NewLoop(c)]
    /\ connState' = [connState EXCEPT ![c] = "PLAYING"]
    /\ UNCHANGED <<medias, videoTrack, streams, writable, transport, atPause,
                   lastPkt, framesRead, readErrors, crashed>>

\* -------------------------------------------------------------- OnPause
\* The handler only logs; the server leaves the play state.
OnPause(c, path) ==
    /\ Serving(c)
    /\ connState[c] = "PLAYING"
    /\ connState' = [connState EXCEPT ![c] = "PAUSED"]
    /\ atPause' = [atPause EXCEPT ![c] = lastPkt[c]]
    /\ UNCHANGED <<medias, videoTrack, streams, writable, transport, loops,
                   nLoops, lastPkt, framesRead, readErrors, crashed>>

\* ------------------------------------- TEARDOWN, disconnect, OnRemoveSession
\* OnRemoveSession and OnConnClose only log: the handler holds nothing of the
\* session. The server drops the connection and, with it, its transport.
OnRemoveSession(c) ==
    /\ connState' = [connState EXCEPT ![c] = "CLOSED"]
    /\ transport' = [transport EXCEPT ![c] = NoTransport]

Teardown(c) ==
    /\ Serving(c)
    /\ OnRemoveSession(c)
    /\ UNCHANGED <<medias, videoTrack, streams, writable, loops, nLoops,
                   atPause, lastPkt, framesRead, readErrors, crashed>>

\* the client goes away without a TEARDOWN
ClientGone(c) ==
    /\ ~crashed
    /\ writable[c]
    /\ connState[c] # "CLOSED"
    /\ writable' = [writable EXCEPT ![c] = FALSE]
    /\ UNCHANGED <<medias, videoTrack, streams, connState, transport, loops,
                   nLoops, atPause, lastPkt, framesRead, readErrors, crashed>>

\* the server notices that the client is gone
OnConnClose(c) ==
    /\ ~crashed
    /\ ~writable[c]
    /\ connState[c] # "CLOSED"
    /\ OnRemoveSession(c)
    /\ UNCHANGED <<medias, videoTrack, streams, writable, loops, nLoops,
                   atPause, lastPkt, framesRead, readErrors, crashed>>

\* ---------------------------------------------------------- streamFrames
\* a check that only a PAUSE ends the loop
NotPaused(c) == connState[c] # "PAUSED"

\* "if conn.State() != gortsplib.ServerConnStatePlay { break }"
StillPlaying(c) == connState[c] = "PLAYING"

\* ticks a loop has handled after its connection was closed
Late(lp) == lp.lateTicks + (IF connState[lp.conn] = "CLOSED" THEN 1 ELSE 0)

\* the goroutine has returned: its locals are gone
Returned(lp) ==
    [IdleLoop EXCEPT !.conn = lp.conn, !.pc = "done", !.lateTicks = Late(lp)]

\* the break out of the loop
TickBreak(l) ==
    /\ ~crashed
    /\ loops[l].pc = "wait"
    /\ ~StillPlaying(loops[l].conn)
    /\ loops' = [loops EXCEPT ![l] = Returned(@)]
    /\ UNCHANGED <<medias, videoTrack, streams, connState, writable, transport,
                   nLoops, atPause, lastPkt, framesRead, readErrors, crashed>>

\* a break where the code continues
BreakOnFrameError(lp) == Returned(lp)

\* "if err != nil { log; continue }"
AfterFrameError(lp) == [lp EXCEPT !.lateTicks = Late(lp)]

\* cap bounds the failed reads a run explores; the code counts none
TickFrameErrorUpTo(l, cap) ==
    /\ ~crashed
    /\ loops[l].pc = "wait"
    /\ StillPlaying(loops[l].conn)
    /\ readErrors < cap
    /\ readErrors' = readErrors + 1
    /\ loops' = [loops EXCEPT ![l] = AfterFrameError(@)]
    /\ UNCHANGED <<medias, videoTrack, streams, connState, writable, transport,
                   nLoops, atPause, lastPkt, framesRead, crashed>>

TickFrameError(l) == TickFrameErrorUpTo(l, MaxMisses)

\* len(rtph264.Packetize(payload, max)): the payload cut into pieces of at
\* most max bytes
NumFragments(size, max) == (size + max - 1) \div max

TickGetFrame(l, size) ==
    /\ ~crashed
    /\ loops[l].pc = "wait"
    /\ StillPlaying(loops[l].conn)
    /\ framesRead < MaxFrames
    /\ framesRead' = framesRead + 1
    /\ loops' = [loops EXCEPT ![l] =
                    [@ EXCEPT !.pc = "write", !.frags = NumFragments(size, MTU),
                              !.i = 0, !.holding = TRUE, !.frames = @ + 1,
                              !.lateTicks = Late(loops[l])]]
    /\ UNCHANGED <<medias, videoTrack, streams, connState, writable, transport,
                   nLoops, atPause, lastPkt, readErrors, crashed>>

\* a marker test that is off by one
MarkerAfterLast(i, n) == i = n

\* "pkt.Header.Marker = (i == len(pkts)-1)"
Marker(i, n) == i = n - 1

\* the increment left out of the range over pkts
KeepFrameCounter(fc) == fc

\* "frameCounter++"
IncFrameCounter(fc) == AddU32(fc, 1)

\* the timestamp advanced inside the range over pkts
TimestampPerPacket(ts, isLast) == AddU32(ts, timestampInc)

\* "timestamp += timestampInc", after the range over pkts
TimestampAfterPacket(ts, isLast) == IF isLast THEN AddU32(ts, timestampInc) ELSE ts

\* a sequence counter that the packets of the other loop advance as well
SharedSequenceNumber(l) ==
    U16(AddU32(loops[l].frameCounter, loops[IF l = 1 THEN 2 ELSE 1].sent))

\* "pkt.Header.SequenceNumber = frameCounter": the goroutine's local, in the
\* 16-bit field of the header
SequenceNumber(l) == U16(loops[l].frameCounter)

\* conn.WritePacketRTP: whether the packet goes out. The result is not looked
\* at by streamFrames. A paused connection is open; whether the server still
\* sends on it is the server's affair, so both outcomes are kept.
Delivered(c) ==
    IF ~writable[c] \/ connState[c] = "CLOSED" THEN {FALSE}
    ELSE IF connState[c] = "PLAYING" THEN {TRUE}
    ELSE {TRUE, FALSE}

WritePacketRTP(l, ok) ==
    LET lp == loops[l]
        c == lp.conn
        isLast == lp.i + 1 = lp.frags
        pkt == [seq |-> SequenceNumber(l), ts |-> lp.timestamp,
                marker |-> Marker(lp.i, lp.frags), frame |-> lp.frames,
                st |-> connState[c], ok |-> ok]
    IN
    /\ ~crashed
    /\ lp.pc = "write"
    /\ ok \in Delivered(c)
    /\ loops' = [loops EXCEPT ![l] =
                    [@ EXCEPT !.frameCounter = IncFrameCounter(@),
                              !.i = @ + 1,
                              !.sent = @ + 1,
                              !.last = pkt,
                              !.timestamp = TimestampAfterPacket(@, isLast),
                              !.holding = ~isLast,
                              !.released = IF isLast THEN @ + 1 ELSE @,
                              !.pc = IF isLast THEN "wait" ELSE "write"]]
    /\ lastPkt' = IF ok THEN [lastPkt EXCEPT ![c] = Stamp(pkt)] ELSE lastPkt
    /\ UNCHANGED <<medias, videoTrack, streams, connState, writable, transport,
                   nLoops, atPause, framesRead, readErrors, crashed>>

\* ------------------------------------------------------------ the system
\* requests, as the clients may send them
Request(c) ==
    \/ \E p \in Paths : OnDescribe(c, p)
    \/ \E p \in Paths, proto \in Protocols :
          \E params \in ClientParams(proto) : OnSetup(c, p, proto, params, 0)
    \/ \E p \in Paths : OnPlay(c, p)
    \/ \E p \in Paths : OnPause(c, p)
    \/ Teardown(c)

\* One client streaming: requests, disconnects and the steps of the
\* streamFrames goroutines, in every interleaving.
Next ==
    \/ \E c \in Streamers : Request(c) /\ UNCHANGED <<logVars, outside>>
    \/ \E c \in Streamers : ClientGone(c) /\ UNCHANGED <<logVars, outside>>
    \/ \E c \in Streamers : OnConnClose(c) /\ UNCHANGED <<logVars, outside>>
    \/ \E l \in LoopIds : TickBreak(l) /\ UNCHANGED <<logVars, outside>>
    \/ \E l \in LoopIds : TickFrameError(l) /\ UNCHANGED <<logVars, outside>>
    \/ \E l \in LoopIds, size \in FrameSizes :
          TickGetFrame(l, size) /\ UNCHANGED <<logVars, outside>>
    \/ \E l \in LoopIds, ok \in BOOLEAN :
          WritePacketRTP(l, ok) /\ UNCHANGED <<logVars, outside>>

Spec == Init /\ [][Next]_vars

\* The requests of all connections with what each returned; the goroutines
\* write nothing a handler reads, and are left where PLAY started them.
Answered(c, method, path, proto, result) ==
    /\ UNCHANGED outside
    /\ last' = Outcome(c, method, path, proto, result)
    /\ refused' = IF method = "SETUP"
                  THEN [refused EXCEPT ![c] = @ \/ result = "UnsupportedTransport"]
                  ELSE refused

\* the requests alone: every client is there and goes on sending
NextAnswers ==
    \/ \E c \in Conns, p \in Paths :
          OnDescribe(c, p) /\ Answered(c, "DESCRIBE", p, "none", DescribeResult(p))
    \/ \E c \in Conns, p \in Paths, proto \in Protocols :
          \E params \in ClientParams(proto) :
             /\ OnSetup(c, p, proto, params, 0)
             /\ Answered(c, "SETUP", p, proto, SetupResult(streams', proto, params, 0))
    \/ \E c \in Conns, p \in Paths :
          OnPlay(c, p) /\ Answered(c, "PLAY", p, "none", "OK")
    \/ \E c \in Conns, p \in Paths :
          OnPause(c, p) /\ Answered(c, "PAUSE", p, "none", "OK")
    \/ \E c \in Conns : Teardown(c) /\ Answered(c, "TEARDOWN", "none", "none", "OK")

SpecAnswers == Init /\ [][NextAnswers]_vars

\* Setting sessions up: the channel pairs and port pairs a client may put
\* in ctx.Transport, with DESCRIBE before or after and TEARDOWN between.
ProposedChannels == {<<0, 1>>, <<2, 3>>}
ProposedParams(proto) == IF proto = "TCP" THEN ProposedChannels ELSE PortPairs

NextSetup ==
    \/ \E c \in Conns, p \in Paths :
          OnDescribe(c, p) /\ Answered(c, "DESCRIBE", p, "none", DescribeResult(p))
    \/ \E c \in Conns, p \in Paths, proto \in Protocols :
          \E params \in ProposedParams(proto) :
             /\ OnSetup(c, p, proto, params, 0)
             /\ Answered(c, "SETUP", p, proto, SetupResult(streams', proto, params, 0))
    \/ \E c \in Conns : Teardown(c) /\ Answered(c, "TEARDOWN", "none", "none", "OK")

SpecSetup == Init /\ [][NextSetup]_vars

NextReq ==
    \/ NextAnswers
    \/ \E c \in Conns : ClientGone(c) /\ UNCHANGED <<logVars, outside>>
    \/ \E c \in Conns : OnConnClose(c) /\ UNCHANGED <<logVars, outside>>

SpecReq == Init /\ [][NextReq]_vars

\* OnDescribe as the connections' goroutines run it, with no lock: the test
\* of h.videoTrack and the assignments that follow it are separate steps, and
\* another connection's OnDescribe may run in between.
DescribeCheck(c, path) ==
    /\ Serving(c)
    /\ describing[c] = "idle"
    /\ describing' = [describing EXCEPT ![c] =
                         IF CreatesMedia(path) THEN "create" ELSE "idle"]
    /\ UNCHANGED <<medias, videoTrack, streams, connState, writable, transport,
                   loops, nLoops, atPause, lastPkt, framesRead, readErrors,
                   crashed, created>>

DescribeCreate(c) ==
    /\ ~crashed
    /\ describing[c] = "create"
    /\ videoTrack' = "H264"
    /\ medias' = <<"video">>
    /\ created' = created + 1
    /\ describing' = [describing EXCEPT ![c] = "idle"]
    /\ UNCHANGED <<streams, connState, writable, transport, loops, nLoops,
                   atPause, lastPkt, framesRead, readErrors, crashed>>

\* a connection's requests are handled one at a time
NotDescribing(c) == describing[c] = "idle" /\ UNCHANGED <<logVars, outside>>

NextDescribe ==
    \/ \E c \in Conns, p \in Paths : DescribeCheck(c, p) /\ UNCHANGED <<logVars, packetVars, mainVars, tickVars>>
    \/ \E c \in Conns : DescribeCreate(c) /\ UNCHANGED <<logVars, packetVars, mainVars, tickVars>>
    \/ \E c \in Conns, p \in Paths, proto \in Protocols :
          \E params \in ClientParams(proto) :
             OnSetup(c, p, proto, params, 0) /\ NotDescribing(c)
    \/ \E c \in Conns, p \in Paths : OnPlay(c, p) /\ NotDescribing(c)
    \/ \E c \in Conns, p \in Paths : OnPause(c, p) /\ NotDescribing(c)
    \/ \E c \in Conns : Teardown(c) /\ NotDescribing(c)

SpecDescribe == Init /\ [][NextDescribe]_vars

\* ------------------------------------------------------------ packetizer
\* rtph264.Packetize(payload, max): the payload cut, front to back, into
\* pieces of max bytes, the last piece holding what is left
RECURSIVE PacketizeThenTail(_, _)
\* a cut that goes on when nothing is left
PacketizeThenTail(data, max) ==
    IF Len(data) < max THEN <<data>>
    ELSE <<SubSeq(data, 1, max)>> \o PacketizeThenTail(SubSeq(data, max + 1, Len(data)), max)

RECURSIVE Packetize(_, _)
Packetize(data, max) ==
    IF Len(data) = 0 THEN <<>>
    ELSE IF Len(data) <= max THEN <<data>>
    ELSE <<SubSeq(data, 1, max)>> \o Packetize(SubSeq(data, max + 1, Len(data)), max)

\* the range over pkts taken from the end
FragmentFromEnd(fragments, i) == fragments[Len(fragments) - i]

\* "for i, pkt := range pkts": the fragment of the i-th round, i from 0
FragmentAt(fragments, i) == fragments[i + 1]

\* the payloads of the frames: every byte string of up to MaxPayloadLen
\* bytes, and frames around the size the code packetizes to
Bytes == {0, 1}
Payloads == UNION {[1..n -> Bytes] : n \in 0..MaxPayloadLen}
FramePayload(size) == [k \in 1..size |-> k % 256]
FramePayloads == {FramePayload(size) : size \in {1, MTU, MTU + 1, 2 * MTU}}

InitPacketize ==
    /\ InitHandler
    /\ NoTicker
    /\ NoDescribe
    /\ MainWaiting
    /\ \/ frameData \in Payloads /\ maxPayload \in 1..MaxPayloadLen
       \/ frameData \in FramePayloads /\ maxPayload = MTU
    /\ packetized = FALSE
    /\ pkts = <<>>
    /\ wire = <<>>

\* "pkts := rtph264.Packetize(frame.Data(), 1400)"
PacketizeFrame ==
    /\ ~packetized
    /\ pkts' = Packetize(frameData, maxPayload)
    /\ packetized' = TRUE
    /\ UNCHANGED <<frameData, maxPayload, wire>>

\* one round of the range over pkts: the fragment goes to WritePacketRTP
WriteFragment ==
    /\ packetized
    /\ Len(wire) < Len(pkts)
    /\ wire' = Append(wire, FragmentAt(pkts, Len(wire)))
    /\ UNCHANGED <<frameData, maxPayload, packetized, pkts>>

NextPacketize ==
    \/ PacketizeFrame /\ UNCHANGED <<rtspVars, logVars, describeVars, mainVars, tickVars>>
    \/ WriteFragment /\ UNCHANGED <<rtspVars, logVars, describeVars, mainVars, tickVars>>

SpecPacketize == InitPacketize /\ [][NextPacketize]_vars

\* A camera that fails every read: the one client's requests and the loops'
\* ticks, none of which gets a frame.
NextFailing ==
    \/ \E c \in Streamers : Request(c) /\ UNCHANGED <<logVars, outside>>
    \/ \E l \in LoopIds : TickBreak(l) /\ UNCHANGED <<logVars, outside>>
    \/ \E l \in LoopIds :
          TickFrameErrorUpTo(l, MaxConsecutive) /\ UNCHANGED <<logVars, outside>>

SpecFailing == Init /\ [][NextFailing]_vars

\* Two clients that have each sent DESCRIBE, SETUP (UDP) and PLAY on the
\* stream path: the state the handlers leave, with one goroutine per client.
Players == {1, 2}

InitPlaying ==
    /\ NoTicker
    /\ medias = <<"video">>
    /\ videoTrack = "H264"
    /\ streams = [isNil |-> FALSE,
                  elems |-> <<[udpRTPListener |-> "nil", udpRTCPListener |-> "nil"]>>]
    /\ connState = [c \in Conns |-> IF c \in Players THEN "PLAYING" ELSE "INIT"]
    /\ writable = [c \in Conns |-> TRUE]
    /\ transport = [c \in Conns |->
                      IF c \in Players THEN SetupResponse("UDP", <<5000, 5001>>)
                      ELSE NoTransport]
    /\ loops = [l \in LoopIds |->
                  IF l \in Players THEN [IdleLoop EXCEPT !.conn = l, !.pc = "wait"]
                  ELSE IdleLoop]
    /\ nLoops = Cardinality(Players)
    /\ atPause = [c \in Conns |-> NoStamp]
    /\ lastPkt = [c \in Conns |-> NoStamp]
    /\ last = NoReq
    /\ refused = [c \in Conns |-> FALSE]
    /\ framesRead = 0
    /\ readErrors = 0
    /\ crashed = FALSE
    /\ NoDescribe
    /\ NoPayload
    /\ MainWaiting

\* the two goroutines' steps in every interleaving, and the clients' TEARDOWNs
NextPlaying ==
    \/ \E c \in Players : Teardown(c) /\ UNCHANGED <<logVars, outside>>
    \/ \E l \in LoopIds : TickBreak(l) /\ UNCHANGED <<logVars, outside>>
    \/ \E l \in LoopIds : TickFrameError(l) /\ UNCHANGED <<logVars, outside>>
    \/ \E l \in LoopIds, size \in FrameSizes :
          TickGetFrame(l, size) /\ UNCHANGED <<logVars, outside>>
    \/ \E l \in LoopIds, ok \in BOOLEAN :
          WritePacketRTP(l, ok) /\ UNCHANGED <<logVars, outside>>

SpecPlaying == InitPlaying /\ [][NextPlaying]_vars

\* ------------------------------------------------------------------ main
\* the flags that decide a branch of the startup
PixelFormats == {"H264", "MJPEG", "YUYV", "", "h264"}
Configs == [irMode : BOOLEAN, pixelFormat : PixelFormats]

\* the controls configureIRMode writes, in its order
Controls == <<"CtrlAutoWhiteBalance", "CtrlExposureAuto", "CtrlExposureAbsolute",
              "CtrlGain", "IRCutFilter">>

\* main after flag.Parse, the context and the signal goroutine are set up
\* ("defer cancel()"), about to call NewCamera; no handler exists yet
InitMain ==
    /\ InitHandler
    /\ NoTicker
    /\ NoDescribe
    /\ NoPayload
    /\ config \in Configs
    /\ proc = [pc |-> "NewCamera", status |-> "running", deferred |-> <<"cancel">>]
    /\ ctxDone = FALSE
    /\ device = NoDevice
    /\ rtspServer = "none"

\* the error logged, and main going on to start the server
LogAndGoOn(p) == [p EXCEPT !.pc = "NewRTSPServer"]

\* logger.Fatalf: the message and os.Exit(1); deferred calls are not run
Fatalf(p) == [p EXCEPT !.pc = "exited", !.status = "exit 1"]

\* the signal goroutine: SIGINT or SIGTERM arrives, cancel() is called
Signal ==
    /\ proc.pc # "exited"
    /\ ~ctxDone
    /\ ctxDone' = TRUE
    /\ UNCHANGED <<config, proc, device, rtspServer>>

\* NewCamera: device.Open; on an error main logs it and exits
OpenDevice(ok) ==
    /\ proc.pc = "NewCamera"
    /\ IF ok
       THEN /\ device' = [device EXCEPT !.state = "open",
                                         !.format = getPixelFormat(config.pixelFormat)]
            /\ proc' = [proc EXCEPT !.pc = IF config.irMode THEN "configureIRMode"
                                           ELSE "Start"]
       ELSE /\ proc' = Fatalf(proc)
            /\ UNCHANGED device
    /\ UNCHANGED <<config, ctxDone, rtspServer>>

\* a control write whose error is returned: NewCamera fails and main exits
SetControlValueChecked(ok) ==
    /\ proc.pc = "configureIRMode"
    /\ LET k == Len(device.controls) + 1 IN
       /\ device' = [device EXCEPT !.controls = Append(@, [id |-> Controls[k], ok |-> ok])]
       /\ proc' = IF ~ok THEN Fatalf(proc)
                  ELSE [proc EXCEPT !.pc = IF k = Len(Controls) THEN "Start"
                                           ELSE "configureIRMode"]
    /\ UNCHANGED <<config, ctxDone, rtspServer>>

\* configureIRMode: one SetControlValue of the range over controls; its
\* error is dropped, and after the last control the function returns nil
SetControlValue(ok) ==
    /\ proc.pc = "configureIRMode"
    /\ LET k == Len(device.controls) + 1 IN
       /\ device' = [device EXCEPT !.controls = Append(@, [id |-> Controls[k], ok |-> ok])]
       /\ proc' = [proc EXCEPT !.pc = IF k = Len(Controls) THEN "Start"
                                      ELSE "configureIRMode"]
    /\ UNCHANGED <<config, ctxDone, rtspServer>>

\* Camera.Close: device.Close()
Close(dev) == [dev EXCEPT !.state = "closed", !.closes = @ + 1]

\* a failed start that returns the error with the device left open
StartDeviceLeaks(ok) ==
    /\ proc.pc = "Start"
    /\ IF ok
       THEN /\ device' = [device EXCEPT !.state = "streaming"]
            /\ proc' = [proc EXCEPT !.pc = "NewRTSPServer",
                                    !.deferred = Append(@, "camera.Close")]
       ELSE /\ proc' = Fatalf(proc)
            /\ UNCHANGED device
    /\ UNCHANGED <<config, ctxDone, rtspServer>>

\* NewCamera: dev.Start(ctx); on an error dev.Close(), and main exits; else
\* main goes on with "defer camera.Close()"
StartDevice(ok) ==
    /\ proc.pc = "Start"
    /\ IF ok
       THEN /\ device' = [device EXCEPT !.state = "streaming"]
            /\ proc' = [proc EXCEPT !.pc = "NewRTSPServer",
                                    !.deferred = Append(@, "camera.Close")]
       ELSE /\ device' = Close(device)
            /\ proc' = Fatalf(proc)
    /\ UNCHANGED <<config, ctxDone, rtspServer>>

\* NewRTSPServer: server.Start(); on an error main logs it and exits; else
\* main goes on with "defer server.Close()" and waits on ctx.Done()
StartServer(ok) ==
    /\ proc.pc = "NewRTSPServer"
    /\ IF ok
       THEN /\ rtspServer' = "running"
            /\ proc' = [proc EXCEPT !.pc = "wait",
                                    !.deferred = Append(@, "server.Close")]
       ELSE /\ proc' = Fatalf(proc)
            /\ UNCHANGED rtspServer
    /\ UNCHANGED <<config, ctxDone, device>>

\* main returns only once every streamFrames goroutine has returned
ShutdownAfterLoops ==
    /\ \A l \in LoopIds : loops[l].pc \in {"none", "done"}
    /\ proc.pc = "wait"
    /\ ctxDone
    /\ proc' = [proc EXCEPT !.pc = "return", !.status = "exit 0"]
    /\ UNCHANGED <<config, ctxDone, device, rtspServer>>

\* "<-ctx.Done()": main returns
Shutdown ==
    /\ proc.pc = "wait"
    /\ ctxDone
    /\ proc' = [proc EXCEPT !.pc = "return", !.status = "exit 0"]
    /\ UNCHANGED <<config, ctxDone, device, rtspServer>>

\* main returning: the deferred calls, last deferred first, then the exit
RunDeferred ==
    /\ proc.pc = "return"
    /\ IF proc.deferred = <<>>
       THEN /\ proc' = [proc EXCEPT !.pc = "exited"]
            /\ UNCHANGED <<ctxDone, device, rtspServer>>
       ELSE LET n == Len(proc.deferred)
                call == proc.deferred[n]
            IN /\ proc' = [proc EXCEPT !.deferred = SubSeq(@, 1, n - 1)]
               /\ rtspServer' = IF call = "server.Close" THEN "closed" ELSE rtspServer
               /\ device' = IF call = "camera.Close" THEN Close(device) ELSE device
               /\ ctxDone' = (ctxDone \/ call = "cancel")
    /\ UNCHANGED config

NextMain ==
    \/ Signal /\ UNCHANGED <<rtspVars, logVars, describeVars, packetVars, tickVars>>
    \/ \E ok \in BOOLEAN :
          OpenDevice(ok) /\ UNCHANGED <<rtspVars, logVars, describeVars, packetVars, tickVars>>
    \/ \E ok \in BOOLEAN :
          SetControlValue(ok) /\ UNCHANGED <<rtspVars, logVars, describeVars, packetVars, tickVars>>
    \/ \E ok \in BOOLEAN :
          StartDevice(ok) /\ UNCHANGED <<rtspVars, logVars, describeVars, packetVars, tickVars>>
    \/ \E ok \in BOOLEAN :
          StartServer(ok) /\ UNCHANGED <<rtspVars, logVars, describeVars, packetVars, tickVars>>
    \/ Shutdown /\ UNCHANGED <<rtspVars, logVars, describeVars, packetVars, tickVars>>
    \/ RunDeferred /\ UNCHANGED <<rtspVars, logVars, describeVars, packetVars, tickVars>>

SpecMain == InitMain /\ [][NextMain]_vars

\* ------------------------------------------------ shutdown while streaming
\* goroutines run while the process does
ProcessRuns == proc.pc # "exited"

\* a tick of a playing session: the loop calls h.camera.GetFrame(), which
\* returns when the device has a frame or fails
TickRead(l) ==
    /\ ~crashed
    /\ loops[l].pc = "wait"
    /\ StillPlaying(loops[l].conn)
    /\ loops' = [loops EXCEPT ![l] = [@ EXCEPT !.pc = "read"]]
    /\ UNCHANGED <<medias, videoTrack, streams, connState, writable, transport,
                   nLoops, atPause, lastPkt, framesRead, readErrors, crashed>>

\* GetFrame returns a frame: "pkts := rtph264.Packetize(frame.Data(), 1400)"
ReadFrame(l, size) ==
    /\ ~crashed
    /\ loops[l].pc = "read"
    /\ framesRead < MaxFrames
    /\ framesRead' = framesRead + 1
    /\ loops' = [loops EXCEPT ![l] =
                    [@ EXCEPT !.pc = "write", !.frags = NumFragments(size, MTU),
                              !.i = 0, !.holding = TRUE, !.frames = @ + 1]]
    /\ UNCHANGED <<medias, videoTrack, streams, connState, writable, transport,
                   nLoops, atPause, lastPkt, readErrors, crashed>>

\* GetFrame returns an error: log and continue
ReadError(l) ==
    /\ ~crashed
    /\ loops[l].pc = "read"
    /\ readErrors < MaxMisses
    /\ readErrors' = readErrors + 1
    /\ loops' = [loops EXCEPT ![l] = [@ EXCEPT !.pc = "wait"]]
    /\ UNCHANGED <<medias, videoTrack, streams, connState, writable, transport,
                   nLoops, atPause, lastPkt, framesRead, crashed>>

\* RTSPServer.Close: s.server.Close() drops every connection of the server
ClosesServer ==
    /\ proc.pc = "return"
    /\ proc.deferred # <<>>
    /\ proc.deferred[Len(proc.deferred)] = "server.Close"

RunDeferredServing ==
    /\ RunDeferred
    /\ IF ClosesServer
       THEN /\ connState' = [c \in Conns |-> "CLOSED"]
            /\ transport' = [c \in Conns |-> NoTransport]
       ELSE UNCHANGED <<connState, transport>>
    /\ UNCHANGED <<medias, videoTrack, streams, writable, loops, nLoops, atPause,
                   lastPkt, framesRead, readErrors, crashed>>

\* the steps of main from "<-ctx.Done()" to the end of the process
MainReturns ==
    \/ Shutdown /\ UNCHANGED <<rtspVars, logVars, describeVars, packetVars, tickVars>>
    \/ RunDeferredServing /\ UNCHANGED <<logVars, describeVars, packetVars, tickVars>>

\* two sessions playing when the signal arrives: main, the signal goroutine
\* and the two streamFrames goroutines in every interleaving
NextShutdown ==
    \/ Signal /\ UNCHANGED <<rtspVars, logVars, describeVars, packetVars, tickVars>>
    \/ MainReturns
    \/ \E l \in LoopIds : ProcessRuns /\ TickBreak(l) /\ UNCHANGED <<logVars, outside>>
    \/ \E l \in LoopIds : ProcessRuns /\ TickRead(l) /\ UNCHANGED <<logVars, outside>>
    \/ \E l \in LoopIds : ProcessRuns /\ ReadError(l) /\ UNCHANGED <<logVars, outside>>
    \/ \E l \in LoopIds, size \in FrameSizes :
          ProcessRuns /\ ReadFrame(l, size) /\ UNCHANGED <<logVars, outside>>
    \/ \E l \in LoopIds, ok \in BOOLEAN :
          ProcessRuns /\ WritePacketRTP(l, ok) /\ UNCHANGED <<logVars, outside>>

\* main is a goroutine the scheduler keeps running; a frame read may never
\* return and a signal may never come
SpecShutdown == InitPlaying /\ [][NextShutdown]_vars /\ WF_vars(MainReturns)

\* ------------------------------------------- one loop under its ticker
\* values of the -fps flag: flag.IntVar takes any integer
FPSValues == {-1, 0, 1, FPS, ClockRate, ClockRate + 1}

\* Go's integer division truncates toward zero
Quo(a, b) ==
    IF (a >= 0) = (b > 0) THEN (IF a >= 0 THEN a ELSE -a) \div (IF b > 0 THEN b ELSE -b)
    ELSE -((IF a >= 0 THEN a ELSE -a) \div (IF b > 0 THEN b ELSE -b))

\* "time.Second / time.Duration(h.config.FPS)"
Interval(f) == Quo(Second, f)

\* "uint32(90000 / h.config.FPS)", for the f that get as far as this line
TimestampInc(f) == Quo(ClockRate, f)

\* a PLAY has started streamFrames; the flag set config.FPS
InitTicker ==
    /\ InitHandler
    /\ NoDescribe
    /\ NoPayload
    /\ MainWaiting
    /\ fps \in FPSValues
    /\ ticker = [IdleTicker EXCEPT !.pc = "start"]

\* the lines before the loop: the division panics on a zero divisor,
\* time.NewTicker panics on an interval that is not positive
StartLoop ==
    /\ ticker.pc = "start"
    /\ ticker' = IF fps = 0 \/ Interval(fps) <= 0
                 THEN [ticker EXCEPT !.pc = "panic"]
                 ELSE [ticker EXCEPT !.pc = "wait", !.inc = TimestampInc(fps)]
    /\ UNCHANGED fps

\* a ticker whose channel keeps every tick
SendQueued(pending) == pending + 1

\* the ticker's send on ticker.C, a channel that holds one tick: a tick that
\* finds it full is dropped
Send(pending) == IF pending = 0 THEN 1 ELSE pending

\* a frame interval ends, while the loop waits or while it works
TickFires ==
    /\ ticker.pc \in {"wait", "work"}
    /\ ticker.fired < MaxTicks
    /\ ticker' = [ticker EXCEPT !.fired = @ + 1,
                                !.pending = Send(@),
                                !.overrun = IF ticker.pc = "work" THEN @ + 1 ELSE @]
    /\ UNCHANGED fps

\* "for range ticker.C": the loop takes a tick and starts an iteration
Receive ==
    /\ ticker.pc = "wait"
    /\ ticker.pending >= 1
    /\ ticker' = [ticker EXCEPT !.pc = "work", !.pending = @ - 1,
                                !.started = @ + 1, !.overrun = 0]
    /\ UNCHANGED fps

\* the end of an iteration that got a frame: "timestamp += timestampInc"
EndIteration ==
    /\ ticker.pc = "work"
    /\ ticker' = [ticker EXCEPT !.pc = "wait", !.frames = @ + 1,
                                !.previous = ticker.timestamp,
                                !.timestamp = AddU32(@, ticker.inc)]
    /\ UNCHANGED fps

NextTicker ==
    \/ StartLoop /\ UNCHANGED <<rtspVars, logVars, describeVars, packetVars, mainVars>>
    \/ TickFires /\ UNCHANGED <<rtspVars, logVars, describeVars, packetVars, mainVars>>
    \/ Receive /\ UNCHANGED <<rtspVars, logVars, describeVars, packetVars, mainVars>>
    \/ EndIteration /\ UNCHANGED <<rtspVars, logVars, describeVars, packetVars, mainVars>>

SpecTicker == InitTicker /\ [][NextTicker]_vars

\* ================================================================ claims
\* l has just made one more WritePacketRTP call, and not its first
NextPacket(l) ==
    /\ loops[l].pc = "write"
    /\ loops[l].sent >= 1
    /\ loops'[l].sent = loops[l].sent + 1

\* C1: of two packets a run of streamFrames emits one after the other, the
\* later carries the earlier one's sequence number plus 1 (in the 16-bit
\* field), whether the two are fragments of one frame or the last and first
\* fragments of two frames, and whatever ticks were skipped in between.
C1_SequencePlusOne ==
    [][\A l \in LoopIds :
          NextPacket(l) => loops'[l].last.seq = (loops[l].last.seq + 1) % Word]_vars

\* a loop has emitted three packets over two frames, after a skipped tick
C1_Witness ==
    \E l \in LoopIds :
       /\ loops[l].sent = 3 /\ loops[l].frames = 2 /\ readErrors >= 1
       /\ loops[l].last.seq = 2

\* C2 (as claimed): the first packet of the loop started by a PLAY that
\* follows a PAUSE has a sequence number and a timestamp greater than those
\* of the last packet emitted before the PAUSE.
C2_ResumeContinues ==
    \A l \in LoopIds :
       (loops[l].sent = 1 /\ loops[l].resumeFrom # NoStamp) =>
          /\ loops[l].last.seq > loops[l].resumeFrom.seq
          /\ LtU32(loops[l].resumeFrom.ts, loops[l].last.ts)

C4_SetupUnknownPath ==
    (last.method = "SETUP" /\ last.path # streamPath /\ medias # <<>>) =>
       (last.result = "NotFound" /\ ~last.changed)

\* C5 (as claimed): a SETUP with an unsupported transport protocol returns
\* UnsupportedTransport and changes no state, and a later valid SETUP on the
\* same connection succeeds. Stated, like C4, for the servers that have
\* served a DESCRIBE.
C5_UnsupportedTransport ==
    /\ (last.method = "SETUP" /\ last.proto \notin {"UDP", "TCP"} /\ medias # <<>>) =>
          (last.result = "UnsupportedTransport" /\ ~last.changed)
    /\ (last.method = "SETUP" /\ last.proto \in {"UDP", "TCP"}
           /\ last.path = streamPath /\ refused[last.conn]) =>
          last.result = "OK"

\* C6 (as claimed): from INIT, a SETUP on the stream path with UDP or TCP
\* succeeds and leaves the session READY, with or without an earlier DESCRIBE.
C6_SetupWithoutDescribe ==
    (last.method = "SETUP" /\ last.path = streamPath
        /\ last.proto \in {"UDP", "TCP"} /\ last.prior = "INIT") =>
       (last.result = "OK" /\ connState[last.conn] = "READY")

\* C7 (as claimed): once a PAUSE has been answered, the loop hands no packet
\* to the connection before a later PLAY: no WritePacketRTP call is made while
\* the session is PAUSED.
C7_PauseStopsLoop ==
    \A l \in LoopIds : loops[l].last # NoPkt => loops[l].last.st # "PAUSED"

C9_WriteFailureEndsLoop ==
    \A l \in LoopIds :
       (loops[l].last # NoPkt /\ loops[l].last.st = "PLAYING" /\ ~loops[l].last.ok) =>
          (loops[l].pc = "done" /\ connState[loops[l].conn] = "CLOSED")

\* C10: a tick whose frame read fails changes nothing but the count of failed
\* reads: no packet is written, no counter, timestamp or frame of any loop
\* changes, no loop ends, and the session of the waiting loop stays PLAYING.
C10_FrameErrorSkipsTick ==
    [][readErrors' = readErrors + 1 =>
          /\ loops' = loops
          /\ lastPkt' = lastPkt
          /\ connState' = connState
          /\ framesRead' = framesRead
          /\ \E l \in LoopIds :
                loops'[l].pc = "wait" /\ connState'[loops'[l].conn] = "PLAYING"]_vars

\* a read has failed, and a loop of the playing session emits its second frame
C10_Witness ==
    \E l \in LoopIds :
       /\ readErrors = 1 /\ loops[l].frames = 2 /\ loops[l].pc = "write"
       /\ connState[loops[l].conn] = "PLAYING"

\* C11 (as claimed): persistent frame-read failure is escalated. With no read
\* ever succeeding, once MaxConsecutive reads in a row have failed in the
\* session, no loop of the session is still waiting for a tick and the
\* session is torn down.
C11_FailuresEscalate ==
    (framesRead = 0 /\ readErrors >= MaxConsecutive) =>
       \A l \in LoopIds :
          loops[l].pc # "none" =>
             (loops[l].pc = "done" /\ connState[loops[l].conn] = "CLOSED")

\* C12: with two sessions playing at once, the sequence number and timestamp
\* of a loop's latest packet are fixed by how many packets and frames that
\* loop itself has emitted (packet k carries k-1, a packet of frame f carries
\* (f-1) * 90000/FPS), and a step in which one loop emits a packet leaves the
\* other loop's counters and the other session's last packet as they were.
C12_IndependentCounters ==
    /\ [](\A l \in LoopIds :
            loops[l].last # NoPkt =>
               /\ loops[l].last.seq = (loops[l].sent - 1) % Word
               /\ loops[l].last.ts = U32((loops[l].last.frame - 1) * (ClockRate \div FPS)))
    /\ [][\A l, m \in LoopIds :
            (l # m /\ loops[m].pc # "none" /\ loops'[l].sent # loops[l].sent) =>
               /\ loops'[m] = loops[m]
               /\ lastPkt'[loops[m].conn] = lastPkt[loops[m].conn]]_vars

\* both sessions are playing; one loop has emitted two packets and the other one
C12_Witness ==
    /\ connState[1] = "PLAYING" /\ connState[2] = "PLAYING"
    /\ \E l, m \in LoopIds :
          /\ loops[l].conn = 1 /\ loops[m].conn = 2
          /\ loops[l].sent = 2 /\ loops[l].last.seq = 1
          /\ loops[m].sent = 1 /\ loops[m].last.seq = 0

\* C13 (as claimed): a request handled for one connection writes no state
\* that the handlers of other connections read: in particular a SETUP leaves
\* the handler's fields, which every connection's SETUP reads, as they were.
\* Stated for the servers that have served a DESCRIBE (see C6 for the others).
C13_NoSharedMutableState ==
    [][(last'.method = "SETUP" /\ medias # <<>>) => streams' = streams]_vars

\* C14 (as claimed): under every interleaving of the connections' DESCRIBE
\* requests the MediaDescription is created exactly once and never replaced:
\* the OnDescribe calls make at most one.
C14_CreatedOnce == created <= 1

\* C15: of the packets of a frame, the marker bit is set on the last fragment
\* and on no other: the latest packet of the frame a loop is emitting carries
\* the marker exactly when it completed the frame. A one-fragment frame's
\* only packet carries it.
C15_MarkerOnLastFragment ==
    \A l \in LoopIds :
       (loops[l].last # NoPkt /\ loops[l].last.frame = loops[l].frames) =>
          (loops[l].last.marker <=> loops[l].i = loops[l].frags)

\* a loop has emitted both fragments of a frame, the second with the marker
C15_Witness ==
    \E l \in LoopIds :
       /\ loops[l].frags = 2 /\ loops[l].i = 2 /\ loops[l].sent = 2
       /\ loops[l].last.marker

\* the bytes of a sequence of fragments, one fragment after the other
RECURSIVE Flatten(_)
Flatten(fragments) ==
    IF fragments = <<>> THEN <<>> ELSE Head(fragments) \o Flatten(Tail(fragments))

\* C16: packetizing a payload of S >= 1 bytes with maximum payload size M
\* gives ceil(S/M) fragments, the n with (n-1)*M < S <= n*M, and so one
\* fragment whenever S <= M; it is the count streamFrames' model takes for
\* len(pkts).
C16_FragmentCount ==
    (packetized /\ Len(frameData) >= 1) =>
       LET S == Len(frameData)
           M == maxPayload
           n == Len(pkts)
       IN /\ (n - 1) * M < S /\ S <= n * M
          /\ S <= M => n = 1
          /\ n = NumFragments(S, M)

\* a payload one byte over the maximum has been cut in two
C16_Witness ==
    /\ packetized /\ maxPayload = MTU
    /\ Len(frameData) = MTU + 1 /\ Len(pkts) = 2

\* C17: for every payload and every maximum payload size M >= 1 the
\* fragments, one after the other, are the payload byte for byte, every
\* fragment has between 1 and M bytes, and the fragments go to the transport
\* in that order: what has been written is the front of the payload, and all
\* of it once every fragment is written.
C17_PayloadPreserved ==
    packetized =>
       /\ Flatten(pkts) = frameData
       /\ \A k \in 1..Len(pkts) : Len(pkts[k]) >= 1 /\ Len(pkts[k]) <= maxPayload
       /\ Flatten(wire) = SubSeq(frameData, 1, Len(Flatten(wire)))
       /\ Len(wire) = Len(pkts) => Flatten(wire) = frameData

\* a three-byte payload has gone out as a two-byte and a one-byte fragment
C17_Witness ==
    /\ frameData = <<0, 1, 0>> /\ maxPayload = 2
    /\ wire = <<(<<0, 1>>), (<<0>>)>>

\* C18 (as claimed): over the whole life of a session the packets that go
\* out on its connection carry strictly increasing sequence numbers and
\* timestamps that never go back, in the order of the writes: each packet
\* that goes out has a greater sequence number than the one before it and a
\* timestamp at least as great.
C18_StrictlyMonotonic ==
    [][\A c \in Conns :
          (lastPkt[c] # NoStamp /\ lastPkt'[c] # lastPkt[c]) =>
             /\ lastPkt'[c].seq > lastPkt[c].seq
             /\ ~LtU32(lastPkt'[c].ts, lastPkt[c].ts)]_vars

\* C19: a DESCRIBE on a path other than the stream path returns NotFound and
\* changes nothing: no MediaDescription is made, and the handler's fields and
\* every session's state and transport are as before.
C19_DescribeUnknownPath ==
    (last.method = "DESCRIBE" /\ last.path # streamPath) =>
       (last.result = "NotFound" /\ ~last.changed)

\* a DESCRIBE on another path was refused before any MediaDescription exists
C19_Witness ==
    /\ last.method = "DESCRIBE" /\ last.path # streamPath
    /\ last.result = "NotFound"
    /\ medias = <<>> /\ videoTrack = "nil"

\* C20 (as claimed): in every run in which the capture device was opened, it
\* is closed exactly once before the process ends, on the shutdown path and
\* on every error path after the open, and it is never closed twice.
C20_DeviceClosedOnce ==
    /\ device.closes <= 1
    /\ (proc.pc = "exited" /\ device.state # "unopened") => device.closes = 1

\* C21: once the shutdown signal has cancelled the context, the process
\* reaches its end, whatever the streaming loops are doing, a loop blocked in
\* the frame read included; and with the process every loop has stopped: no
\* loop takes a step after the end.
C21_ShutdownEnds ==
    /\ ctxDone ~> (proc.pc = "exited")
    /\ [][proc.pc = "exited" => loops' = loops]_vars

\* the process has ended after a signal that found a loop in the frame read
C21_Witness ==
    /\ proc.pc = "exited" /\ proc.status = "exit 0" /\ ctxDone
    /\ \E l \in LoopIds : loops[l].pc = "read"

\* the process ended on an error with the device not streaming: NewCamera
\* had returned an error (after a server failure the device is streaming)
CameraFailed ==
    /\ proc.pc = "exited" /\ proc.status = "exit 1"
    /\ device.state # "streaming"

\* C22: a failure to open or to start the capture device ends the startup:
\* in a run whose camera initialization failed the RTSP server was never
\* started, and a server that is running has a device that is streaming.
C22_CameraFailureAborts ==
    /\ CameraFailed => rtspServer = "none"
    /\ rtspServer = "running" => device.state = "streaming"

\* the device opened, its start failed, and the process ended with no server
C22_Witness ==
    /\ CameraFailed /\ device.state = "closed" /\ device.closes = 1
    /\ rtspServer = "none"

\* C23: with IR mode on, whichever control writes fail, the controls are
\* attempted one after the other in the order of the list, all of them by
\* the time the device is started, and no failure ends the initialization:
\* the process never ends between the open and the start of the device.
\* With IR mode off no control is written.
C23_IRModeBestEffort ==
    /\ Len(device.controls) <= Len(Controls)
    /\ \A k \in 1..Len(device.controls) : device.controls[k].id = Controls[k]
    /\ (config.irMode /\ proc.pc \notin {"NewCamera", "configureIRMode"}
           /\ device.state # "unopened") =>
          Len(device.controls) = Len(Controls)
    /\ ~config.irMode => device.controls = <<>>
    /\ proc.pc = "exited" => device.state # "open"

\* every control write failed, and the camera is streaming behind the server
C23_Witness ==
    /\ config.irMode
    /\ Len(device.controls) = Len(Controls)
    /\ \A k \in 1..Len(device.controls) : ~device.controls[k].ok
    /\ device.state = "streaming" /\ rtspServer = "running"

\* C24 (as claimed): a loop releases each frame it got exactly once, after
\* the frame's packets and before its next read, so a loop holds a frame only
\* while it writes that frame's packets, and a session holds at most one
\* unreleased frame at any time.
C24_OneFramePerSession ==
    /\ \A l \in LoopIds :
          /\ loops[l].holding => loops[l].pc = "write"
          /\ loops[l].pc \in {"wait", "write"} =>
                loops[l].released = loops[l].frames - (IF loops[l].holding THEN 1 ELSE 0)
    /\ \A c \in Conns :
          Cardinality({l \in LoopIds : loops[l].conn = c /\ loops[l].holding}) <= 1

\* C25 (as claimed): frame delivery is fan-out. With two sessions playing
\* from the device's first frame on, each session packetizes every frame of
\* the device: the k-th frame a loop gets is the k-th frame the device has
\* handed out, whatever the other loop has read.
C25_FanOut ==
    [][\A l \in LoopIds :
          loops'[l].frames = loops[l].frames + 1 => framesRead' = loops'[l].frames]_vars

\* C26 (as claimed): errors are scoped to the request or session that
\* produced them; in particular no sequence of requests of one client ends
\* the server process, which serves the listener and every other session.
C26_NoRequestEndsProcess == ~crashed

\* C27 (as claimed): a session set up over UDP has server ports that the
\* server holds: the listeners of its stream are bound, and no two live
\* sessions have the same server port pair.
C27_ServerHoldsUDPPorts ==
    /\ \A c \in Conns :
          transport[c].protocol = "UDP" =>
             \A k \in 1..Len(streams.elems) :
                /\ streams.elems[k].udpRTPListener # "nil"
                /\ streams.elems[k].udpRTCPListener # "nil"
    /\ \A c, d \in Conns :
          (c # d /\ transport[c].protocol = "UDP" /\ transport[d].protocol = "UDP") =>
             transport[c].server # transport[d].server

\* C28: a session set up over TCP was answered with protocol TCP and the
\* interleaved channel pair its client proposed, whichever pair that was.
C28_TCPEchoesChannels ==
    \A c \in Conns :
       transport[c].protocol = "TCP" =>
          /\ transport[c].client \in ProposedChannels
          /\ transport[c].server = transport[c].client
          /\ connState[c] # "INIT"

C28_Witness ==
    /\ last.method = "SETUP" /\ last.proto = "TCP" /\ last.result = "OK"
    /\ transport[last.conn] = [protocol |-> "TCP", server |-> <<2, 3>>, client |-> <<2, 3>>]

\* every port pair the server could report to c is the server pair of
\* another live session
NoPairToBind(c) ==
    \A pp \in PortPairs :
       \E d \in Conns \ {c} :
          /\ connState[d] \in {"READY", "PLAY"}
          /\ transport[d].protocol = "UDP" /\ transport[d].server = pp

\* C29 (as claimed): a UDP SETUP that finds no port pair to bind fails with
\* TransportUnavailable and changes neither the session nor the handler.
C29_NoPortsRefused ==
    [][(/\ last'.method = "SETUP" /\ last'.proto = "UDP"
        /\ last'.result # "panic"
        /\ NoPairToBind(last'.conn))
       => /\ last'.result = "TransportUnavailable"
          /\ UNCHANGED <<connState, transport, medias, videoTrack>>]_vars

\* C30 (as claimed): a session never leaves CLOSED, and from the step that
\* closes it on none of its streaming loops is running and none hands over a
\* packet.
C30_ClosedIsTerminal ==
    [][\A c \in Conns :
          /\ connState[c] = "CLOSED" => connState'[c] = "CLOSED"
          /\ connState'[c] = "CLOSED" =>
                \A l \in LoopIds :
                   loops'[l].conn = c =>
                      /\ loops'[l].pc \in {"none", "done"}
                      /\ loops'[l].sent <= loops[l].sent]_vars

\* C32: the device is opened with the format of the configured name: H264,
\* MJPEG and YUYV each with their own, every other name (the empty string,
\* other letter case) with the H264 format, and the name alone never makes
\* the startup fail.
C32_PixelFormatFallback ==
    device.state # "unopened" =>
       /\ config.pixelFormat = "H264" => device.format = "PixelFmtH264"
       /\ config.pixelFormat = "MJPEG" => device.format = "PixelFmtMJPEG"
       /\ config.pixelFormat = "YUYV" => device.format = "PixelFmtYUYV"
       /\ config.pixelFormat \notin {"H264", "MJPEG", "YUYV"} =>
             device.format = "PixelFmtH264"

C32_Witness ==
    /\ config.pixelFormat = "h264"
    /\ device.state = "streaming" /\ device.format = "PixelFmtH264"
    /\ rtspServer = "running"

\* C33 (as claimed): a PLAY or PAUSE naming another path than the stream
\* path is answered NotFound and changes no state; such a PLAY starts no
\* streaming loop.
C33_PlayPauseUnknownPath ==
    [][(last'.method \in {"PLAY", "PAUSE"} /\ last'.path # streamPath) =>
          /\ last'.result = "NotFound"
          /\ ~last'.changed
          /\ loops' = loops /\ nLoops' = nLoops]_vars

\* C34 (as claimed): when a loop of a session hands over a packet, every
\* other loop started for that session has returned: two loops of one
\* connection never write in turn.
C34_OneLoopPerSession ==
    [][\A l, m \in LoopIds :
          (/\ l # m
           /\ loops[m].pc = "write" /\ loops'[m].sent = loops[m].sent + 1
           /\ loops[l].conn = loops[m].conn) =>
             loops[l].pc = "done"]_vars

\* C35 (as claimed): whenever the stream table exists it has one entry for
\* each media of the MediaDescription, which has the one video media, so
\* media index 0 of a SETUP is within it, whatever the order of DESCRIBE and
\* SETUP.
C35_StreamTableMatchesMedias ==
    ~streams.isNil =>
       /\ Len(streams.elems) = Len(<<"video">>)
       /\ IndexInRange(streams, 0)

\* C36 (as claimed): the device is closed only once the RTSP server has been
\* closed, and from then on no loop calls GetFrame and no loop releases a
\* frame.
C36_DeviceOutlivesLoops ==
    [][/\ device'.state = "closed" => rtspServer' = "closed"
       /\ device.state = "closed" =>
             \A l \in LoopIds :
                /\ loops'[l].pc = "read" => loops[l].pc = "read"
                /\ loops'[l].released <= loops[l].released]_vars

\* main holds a camera: NewCamera has returned one
HasCamera == \E k \in 1..Len(proc.deferred) : proc.deferred[k] = "camera.Close"

\* C37: when NewCamera has returned an error with the device opened, the
\* device has been closed, once; and it returns a started camera or an error,
\* never both: after an error main holds no camera, and a camera main holds
\* was started.
C37_NoLeakOnInitFailure ==
    /\ (CameraFailed /\ device.state # "unopened") =>
          (device.state = "closed" /\ device.closes = 1)
    /\ CameraFailed => ~HasCamera
    /\ HasCamera => device.state \in {"streaming", "closed"}
    /\ proc.pc \in {"NewRTSPServer", "wait"} =>
          (HasCamera /\ device.state = "streaming")

\* the start failed after IR mode was configured, and the device was closed
C37_Witness ==
    /\ CameraFailed /\ ~HasCamera
    /\ config.irMode /\ Len(device.controls) = Len(Controls)
    /\ device.state = "closed" /\ device.closes = 1

\* C31: ticks coalesce. At most one tick is pending for the loop at any time,
\* no iteration starts without a tick, and after an iteration during which k
\* frame intervals ended, whatever k, exactly one tick is waiting: the loop
\* runs one catch-up iteration and then waits for the next tick.
C31_TicksCoalesce ==
    /\ ticker.pending <= 1
    /\ ticker.started + ticker.pending <= ticker.fired
    /\ (ticker.pc = "wait" /\ ticker.overrun >= 1) => ticker.pending = 1

\* an iteration overran three frame intervals and one tick is pending
C31_Witness ==
    /\ ticker.pc = "wait" /\ ticker.overrun = 3 /\ ticker.pending = 1
    /\ ticker.frames = 1

\* C38 (as claimed): whatever FPS the flag set, streamFrames starts without
\* a fault, its timestamp increment is positive, and two consecutive frames
\* never have the same timestamp.
C38_EveryFPSStreams ==
    /\ ticker.pc # "panic"
    /\ ticker.pc \in {"wait", "work"} => ticker.inc > 0
    /\ ticker.frames >= 1 => ticker.timestamp # ticker.previous
====
